---- MODULE Spec2Model ----
(***************************************************************************)
(* Model of src/src/index.js: a webcam page that paints the live video on  *)
(* a canvas (renderVideoFrame, one iteration per requestAnimationFrame     *)
(* callback) and, from a 100 ms interval timer, runs an ONNX session on a  *)
(* snapshot of the video and draws the detections (processFrame,           *)
(* postProcess).  Everything runs on the one JavaScript event loop: an     *)
(* action below is one task or microtask of that loop, from its start to   *)
(* its end or to its await.                                                *)
(***************************************************************************)
EXTENDS Integers, Sequences, FiniteSets, TLC

\* ---------------------------------------------------------------- bounds
\* setInterval registrations explored (each successful start adds one)
MaxTimers == 2
\* session.run calls in flight at the same time
MaxInFlight == 2
\* values of the performance.now() clock
MaxTime == 1
\* length of the short score buffers of SpecPost
MaxScores == 3
\* detections beyond the cap in the long score buffers of SpecPost
MaxExtra == 2
\* width and height of the pixel buffers of SpecPre
MaxSide == 2
\* greatest first byte of the pixel buffers of SpecPre
MaxSeed == 15

\* ------------------------------------------------------ program constants
\* const confidenceThreshold = 0.9, as the fraction 9/10
ThresholdNum == 9
ThresholdDen == 10
\* const maxDetections = 100
maxDetections == 100
\* fps = 1000 / delta
MsPerSecond == 1000
\* data[i] / 255.0
ByteScale == 255

VARIABLES
    session,              \* "undefined" | "session"            (let session)
    modelLoad,            \* "pending" | "resolved" | "rejected": the promise of InferenceSession.create
    stream,               \* "undefined" | "null" | "live"      (let stream)
    startButtonDisabled,  \* startButton.disabled
    processingFrame,      \* let processingFrame = false
    getUserMedia,         \* "none" | "pending": the promise of getUserMedia
    playPromise,          \* "none" | "pending": the promise video.play() returned
    timers,               \* number of intervals registered by setInterval(processFrame, 100)
    rafPending,           \* number of pending requestAnimationFrame(renderVideoFrame) callbacks
    inFlight,             \* number of processFrame calls suspended at await session.run
    offscreenCanvas,      \* "undefined" | "drawn": the off-screen 640x640 buffer
    canvas,               \* [width, height] of the visible canvas
    surface,              \* what the visible canvas shows: [painted, boxes, fpsLabel]
    lastFrameTime,        \* let lastFrameTime
    fps,                  \* let fps, the quotient num/den (den = 0: Infinity)
    now,                  \* performance.now()
    imageData,            \* [width, height, data]: the pixels the latest running tick read
    inputTensor,          \* the tensorData preprocess built from them
    last,                 \* the task that ran last: [op, results]
    stopsInARow           \* 0: startWebcam was invoked last; 1: stopWebcam was;
                          \* 2: stopWebcam was, twice or more in a row, the
                          \*    second time with no active stream

vars == <<session, modelLoad, stream, startButtonDisabled, processingFrame,
          getUserMedia, playPromise, timers, rafPending, inFlight,
          offscreenCanvas, canvas, surface, lastFrameTime, fps, now, last,
          stopsInARow, imageData, inputTensor>>

\* ------------------------------------------------------------ data values
\* An InferenceResult is the sequence of the output tensors' data buffers, in
\* Object.keys order; NoOutputs is a result object with no output at all.
NoOutputs == <<>>

Event(op) == [op |-> op, results |-> NoOutputs]

BlankSurface == [painted |-> FALSE, boxes |-> <<>>, fpsLabel |-> FALSE]

\* ctx.drawImage(video, 0, 0, canvas.width, canvas.height): the frame covers
\* the whole canvas, whatever was drawn on it before.
VideoSurface == [painted |-> TRUE, boxes |-> <<>>, fpsLabel |-> FALSE]

\* ------------------------------------------------------------ postProcess
\* results[outputNames[k-1]]?.data
OutputData(r, k) ==
    IF k <= Len(r) THEN [defined |-> TRUE, data |-> r[k]]
                   ELSE [defined |-> FALSE, data |-> <<>>]

\* the negation of `!boxes || !scores`: a typed array is truthy, also when empty
Validates(r) == OutputData(r, 1).defined /\ OutputData(r, 2).defined

\* let maxScore = -Infinity; for (let score of scores) if (score > maxScore)
\* maxScore = score: the greatest score, -Infinity (not finite) for no score
MaxScore(scores) ==
    IF Len(scores) = 0 THEN [finite |-> FALSE, v |-> 0]
    ELSE [finite |-> TRUE,
          v |-> CHOOSE v \in {scores[k] : k \in 1..Len(scores)} :
                    \A k \in 1..Len(scores) : scores[k] <= v]

\* The typed array `scores.map(...)` returns is a Float32Array: each quotient
\* score / maxScore is stored rounded to the nearest float32 (ties to even).
\* 0.9 is no float32: it lies between F32Mantissa / 2^24 and
\* (F32Mantissa + 1) / 2^24, so the stored value is < 0.9 exactly when the
\* quotient rounds to F32Mantissa / 2^24 or lower, that is when it is at most
\* the midpoint (2 * F32Mantissa + 1) / 2^25 (a tie goes to the even mantissa).
F32Mantissa == (ThresholdNum * 2^24) \div ThresholdDen
F32MidNum == 2 * F32Mantissa + 1
F32MidDen == 2^25
TieRoundsDown == F32Mantissa % 2 = 0

\* fround(s / m) < 0.9 for a finite maximum m
StoredBelow(s, m) ==
    IF m > 0 THEN IF TieRoundsDown THEN s * F32MidDen <= F32MidNum * m
                                   ELSE s * F32MidDen < F32MidNum * m
    ELSE IF m < 0 THEN IF TieRoundsDown THEN s * F32MidDen >= F32MidNum * m
                                        ELSE s * F32MidDen > F32MidNum * m
    ELSE s < 0      \* s / 0: NaN for s = 0 (no comparison holds), -Infinity for s < 0

\* `score < confidenceThreshold` on normalizedScores[i]
BelowThreshold(s, maxScore) == maxScore.finite /\ StoredBelow(s, maxScore.v)

\* normalizedScores[k]: score / maxScore. A division by 0 gives no number: NaN
\* for 0 / 0, -Infinity for a negative score (no score exceeds the maximum).
\* A "number" is the quotient num / den, which the Float32Array then stores
\* rounded to float32.
NormalizedScore(s, maxScore) ==
    IF maxScore.v = 0
    THEN [kind |-> IF s = 0 THEN "NaN" ELSE "-Infinity", num |-> 0, den |-> 1]
    ELSE [kind |-> "number", num |-> s, den |-> maxScore.v]

\* const normalizedScores = scores.map(score => score / maxScore)
NormalizedScores(scores) ==
    [k \in 1..Len(scores) |-> NormalizedScore(scores[k], MaxScore(scores))]

\* The float32 neighbours of 1.0 are 1 - 2^-24 and 1 + 2^-23, and a tie goes to
\* 1.0 (even mantissa): the stored value of a quotient q is 1.0 exactly when
\* 1 - 2^-25 <= q <= 1 + 2^-24, and above 1.0 exactly when q > 1 + 2^-24.
StoredAboveOne(n) ==
    /\ n.kind = "number"
    /\ IF n.den > 0 THEN n.num * 2^24 > (2^24 + 1) * n.den
                    ELSE n.num * 2^24 < (2^24 + 1) * n.den

StoredIsOne(n) ==
    /\ n.kind = "number"
    /\ ~StoredAboveOne(n)
    /\ IF n.den > 0 THEN n.num * 2^25 >= (2^25 - 1) * n.den
                    ELSE n.num * 2^25 <= (2^25 - 1) * n.den

\* boxes.slice(i * 4, (i + 1) * 4)[j]: undefined beyond the buffer
Coord(boxes, k) ==
    IF k + 1 <= Len(boxes) THEN [nan |-> FALSE, v |-> boxes[k + 1]]
                           ELSE [nan |-> TRUE, v |-> 0]

Min(a, b) == IF a < b THEN a ELSE b
Max(a, b) == IF a > b THEN a ELSE b

ClampUpperOnly(limit, x) ==
    IF x.nan THEN x ELSE [nan |-> FALSE, v |-> Min(limit, x.v)]

\* Math.max(0, Math.min(limit, x)); NaN for an undefined x
Clamp(limit, x) ==
    IF x.nan THEN x ELSE [nan |-> FALSE, v |-> Max(0, Min(limit, x.v))]

DrawnBox(boxes, i) ==
    [i  |-> i,
     x1 |-> Clamp(canvas.width, Coord(boxes, 4 * i)),
     y1 |-> Clamp(canvas.height, Coord(boxes, 4 * i + 1)),
     x2 |-> Clamp(canvas.width, Coord(boxes, 4 * i + 2)),
     y2 |-> Clamp(canvas.height, Coord(boxes, 4 * i + 3))]

\* the indices i whose iteration does not `continue`
Accepted(scores) ==
    {i \in 0..(Len(scores) - 1) : ~BelowThreshold(scores[i + 1], MaxScore(scores))}

\* The for loop: detectionCount at iteration i is the number of accepted
\* indices before i, and the loop breaks once it is maxDetections; so index i
\* is drawn when it is accepted and fewer than maxDetections accepted indices
\* precede it.
DrawnIndices(scores) ==
    LET accepted == Accepted(scores)
    IN  {i \in accepted : Cardinality({j \in accepted : j < i}) < maxDetections}

\* the detections the loop strokes, in drawing order (ascending index)
DrawnBoxes(boxes, scores) ==
    LET drawn == DrawnIndices(scores)
    IN  [k \in 1..Cardinality(drawn) |->
            DrawnBox(boxes, CHOOSE i \in drawn :
                                Cardinality({j \in drawn : j < i}) = k - 1)]

calculateFPS ==
    /\ fps' = [num |-> MsPerSecond, den |-> now - lastFrameTime]
    /\ lastFrameTime' = now

\* postProcess past its validation: clearRect, drawImage, the boxes, the FPS label
postProcessDraw(r) ==
    /\ surface' = [painted  |-> TRUE,
                   boxes    |-> DrawnBoxes(OutputData(r, 1).data,
                                           OutputData(r, 2).data),
                   fpsLabel |-> TRUE]
    /\ calculateFPS

postProcessLiveOnly(r) ==
    IF ~Validates(r) \/ stream # "live"
    THEN UNCHANGED <<surface, lastFrameTime, fps>>
    ELSE postProcessDraw(r)

postProcess(r) ==
    IF ~Validates(r)
    THEN UNCHANGED <<surface, lastFrameTime, fps>>
    ELSE postProcessDraw(r)

\* ------------------------------------------------------------- preprocess
\* no getImageData yet
NoImage == [width |-> 0, height |-> 0, data |-> <<>>]

\* What getImageData returns for a w x h buffer: 4 bytes (R, G, B, A) a pixel,
\* row-major. The bytes step through 0..255 from `seed`, so that no two
\* neighbouring samples agree. (The program's buffer is 640 x 640.)
Frame(w, h, seed) ==
    [width  |-> w,
     height |-> h,
     data   |-> [k \in 1..(4 * w * h) |-> (seed + 37 * (k - 1)) % 256]]

\* data[i] / 255.0 as stored in the Float32Array: the float32 nearest to the
\* quotient num / den
Scaled(byte) == [num |-> byte, den |-> ByteScale]

\* The loop runs i over 0, 4, 8, ... and writes data[i], data[i + 1],
\* data[i + 2] at offset, offset + 1, offset + 2 with offset advancing by 3 a
\* pixel: element j of tensorData (from 0) is channel j % 3 of pixel j \div 3.
\* The Float32Array has width * height * 3 elements, zero where nothing is
\* written.
preprocess(img) ==
    [j \in 1..(img.width * img.height * 3) |->
        LET pixel   == (j - 1) \div 3
            channel == (j - 1) % 3
        IN  IF 4 * pixel + channel + 1 <= Len(img.data)
            THEN Scaled(img.data[4 * pixel + channel + 1])
            ELSE Scaled(0)]

\* ------------------------------------------------------------------ Init
Init ==
    /\ session = "undefined"
    /\ modelLoad = "pending"
    /\ stream = "undefined"
    /\ startButtonDisabled = FALSE
    /\ processingFrame = FALSE
    /\ getUserMedia = "none"
    /\ playPromise = "none"
    /\ timers = 0
    /\ rafPending = 0
    /\ inFlight = 0
    /\ offscreenCanvas = "undefined"
    /\ canvas = [width |-> 300, height |-> 150]
    /\ surface = BlankSurface
    /\ lastFrameTime = 0
    /\ fps = [num |-> 0, den |-> 1]
    /\ now = 0
    /\ last = Event("load")
    /\ stopsInARow = 0
    /\ imageData = NoImage
    /\ inputTensor = <<>>


\* ------------------------------------------------------------ model load
\* session = await ort.InferenceSession.create(modelUrl)
modelLoaded ==
    /\ modelLoad = "pending"
    /\ modelLoad' = "resolved"
    /\ session' = "session"
    /\ last' = Event("modelLoaded")
    /\ UNCHANGED <<stream, startButtonDisabled, processingFrame, getUserMedia,
                   playPromise, timers, rafPending, inFlight, offscreenCanvas,
                   canvas, surface, lastFrameTime, fps, now, stopsInARow,
                   imageData, inputTensor>>

modelLoadFailedKeepsHandle ==
    /\ modelLoad = "pending"
    /\ modelLoad' = "rejected"
    /\ session' = "session"
    /\ last' = Event("modelLoadFailed")
    /\ UNCHANGED <<stream, startButtonDisabled, processingFrame,
                   getUserMedia, playPromise, timers, rafPending, inFlight,
                   offscreenCanvas, canvas, surface, lastFrameTime, fps, now,
                   stopsInARow,
                   imageData, inputTensor>>

\* catch (e) { console.error('Error loading the model', e); }
modelLoadFailed ==
    /\ modelLoad = "pending"
    /\ modelLoad' = "rejected"
    /\ last' = Event("modelLoadFailed")
    /\ UNCHANGED <<session, stream, startButtonDisabled, processingFrame,
                   getUserMedia, playPromise, timers, rafPending, inFlight,
                   offscreenCanvas, canvas, surface, lastFrameTime, fps, now,
                   stopsInARow,
                   imageData, inputTensor>>

\* ------------------------------------------------------------ start, stop
\* the body of stopWebcam: the value of stream after it
StreamAfterStop == IF stream = "live" THEN "null" ELSE stream

\* A click on startButton. The handler is reached only through the button's
\* click listener, and a disabled button dispatches no click.
startWebcam ==
    /\ ~startButtonDisabled
    /\ timers < MaxTimers
    /\ stream' = StreamAfterStop
    /\ startButtonDisabled' = TRUE
    /\ getUserMedia' = "pending"
    /\ stopsInARow' = 0
    /\ last' = Event("startWebcam")
    /\ UNCHANGED <<session, modelLoad, processingFrame, playPromise, timers,
                   rafPending, inFlight, offscreenCanvas, canvas, surface,
                   lastFrameTime, fps, now,
                   imageData, inputTensor>>

\* .then(s => { stream = s; video.srcObject = stream; video.play() ... }):
\* play() returns a promise, or undefined in a browser without promise-based
\* playback, and then nothing further is registered.
getUserMediaResolved ==
    /\ getUserMedia = "pending"
    /\ getUserMedia' = "none"
    /\ stream' = "live"
    /\ \E returnsPromise \in BOOLEAN :
           playPromise' = IF returnsPromise THEN "pending" ELSE "none"
    /\ last' = Event("getUserMediaResolved")
    /\ UNCHANGED <<session, modelLoad, startButtonDisabled, processingFrame,
                   timers, rafPending, inFlight, offscreenCanvas, canvas,
                   surface, lastFrameTime, fps, now, stopsInARow,
                   imageData, inputTensor>>

\* .catch(err => { ...; startButton.disabled = false; })
getUserMediaRejected ==
    /\ getUserMedia = "pending"
    /\ getUserMedia' = "none"
    /\ startButtonDisabled' = FALSE
    /\ last' = Event("getUserMediaRejected")
    /\ UNCHANGED <<session, modelLoad, stream, processingFrame, playPromise,
                   timers, rafPending, inFlight, offscreenCanvas, canvas,
                   surface, lastFrameTime, fps, now, stopsInARow,
                   imageData, inputTensor>>

renderVideoFrameUnguarded(pending) ==
    /\ surface' = VideoSurface
    /\ rafPending' = pending + 1

\* the body of renderVideoFrame, entered with `pending` callbacks still queued
renderVideoFrame(pending) ==
    IF stream = "live"
    THEN /\ surface' = VideoSurface
         /\ rafPending' = pending + 1
    ELSE /\ surface' = surface
         /\ rafPending' = pending

\* playPromise.then(() => { startButton.disabled = false; renderVideoFrame();
\*                          setInterval(processFrame, 100); })
playResolved ==
    /\ playPromise = "pending"
    /\ playPromise' = "none"
    /\ startButtonDisabled' = FALSE
    /\ renderVideoFrame(rafPending)
    /\ timers' = timers + 1
    /\ last' = Event("playResolved")
    /\ UNCHANGED <<session, modelLoad, stream, processingFrame, getUserMedia,
                   inFlight, offscreenCanvas, canvas, lastFrameTime, fps, now,
                   stopsInARow,
                   imageData, inputTensor>>

\* .catch(error => { ...; startButton.disabled = false; })
playRejected ==
    /\ playPromise = "pending"
    /\ playPromise' = "none"
    /\ startButtonDisabled' = FALSE
    /\ last' = Event("playRejected")
    /\ UNCHANGED <<session, modelLoad, stream, processingFrame, getUserMedia,
                   timers, rafPending, inFlight, offscreenCanvas, canvas,
                   surface, lastFrameTime, fps, now, stopsInARow,
                   imageData, inputTensor>>

\* A click on stopButton.
stopWebcam ==
    /\ stream' = StreamAfterStop
    /\ stopsInARow' = IF stopsInARow >= 1 /\ stream # "live" THEN 2
                      ELSE Max(stopsInARow, 1)
    /\ last' = Event("stopWebcam")
    /\ UNCHANGED <<session, modelLoad, startButtonDisabled, processingFrame,
                   getUserMedia, playPromise, timers, rafPending, inFlight,
                   offscreenCanvas, canvas, surface, lastFrameTime, fps, now,
                   imageData, inputTensor>>

\* ------------------------------------------------------------ render loop
\* A requestAnimationFrame callback runs renderVideoFrame.
animationFrame ==
    /\ rafPending > 0
    /\ renderVideoFrame(rafPending - 1)
    /\ last' = Event("renderVideoFrame")
    /\ UNCHANGED <<session, modelLoad, stream, startButtonDisabled,
                   processingFrame, getUserMedia, playPromise, timers,
                   inFlight, offscreenCanvas, canvas, lastFrameTime, fps, now,
                   stopsInARow,
                   imageData, inputTensor>>

\* --------------------------------------------------------- inference tick
TickRunsWithoutStream == session = "session"

TickRunsSerialized == session = "session" /\ stream = "live" /\ inFlight = 0

\* the negation of `!session || !stream`
TickRuns == session = "session" /\ stream = "live"

\* An interval timer fires processFrame, which runs to its await; `frame` is
\* what getImageData reads from the off-screen buffer.
processFrameOn(frame) ==
    /\ timers > 0
    /\ IF TickRuns
       THEN /\ inFlight < MaxInFlight
            /\ offscreenCanvas' = "drawn"
            /\ imageData' = frame
            /\ inputTensor' = preprocess(frame)
            /\ inFlight' = inFlight + 1
       ELSE UNCHANGED <<offscreenCanvas, inFlight, imageData, inputTensor>>
    /\ last' = Event("processFrame")
    /\ UNCHANGED <<session, modelLoad, stream, startButtonDisabled,
                   processingFrame, getUserMedia, playPromise, timers,
                   rafPending, canvas, surface, lastFrameTime, fps, now,
                   stopsInARow>>

\* the frames the video shows in Spec
TickFrames == {Frame(2, 1, 0)}

processFrame == \E frame \in TickFrames : processFrameOn(frame)

\* const results = await session.run(feeds); postProcess(results);
runResolved(r) ==
    /\ inFlight > 0
    /\ inFlight' = inFlight - 1
    /\ postProcess(r)
    /\ last' = [op |-> "runResolved", results |-> r]
    /\ UNCHANGED <<session, modelLoad, stream, startButtonDisabled,
                   processingFrame, getUserMedia, playPromise, timers,
                   rafPending, offscreenCanvas, canvas, now, stopsInARow,
                   imageData, inputTensor>>

runRejectedDropsSession ==
    /\ inFlight > 0
    /\ inFlight' = inFlight - 1
    /\ session' = "undefined"
    /\ last' = Event("runRejected")
    /\ UNCHANGED <<modelLoad, stream, startButtonDisabled,
                   processingFrame, getUserMedia, playPromise, timers,
                   rafPending, offscreenCanvas, canvas, surface, lastFrameTime,
                   fps, now, stopsInARow,
                   imageData, inputTensor>>

\* catch (e) { console.error('Error during inference', e); }
runRejected ==
    /\ inFlight > 0
    /\ inFlight' = inFlight - 1
    /\ last' = Event("runRejected")
    /\ UNCHANGED <<session, modelLoad, stream, startButtonDisabled,
                   processingFrame, getUserMedia, playPromise, timers,
                   rafPending, offscreenCanvas, canvas, surface, lastFrameTime,
                   fps, now, stopsInARow,
                   imageData, inputTensor>>

\* performance.now() moves on between two tasks.
advanceTime ==
    /\ now < MaxTime
    /\ now' = now + 1
    /\ UNCHANGED <<session, modelLoad, stream, startButtonDisabled,
                   processingFrame, getUserMedia, playPromise, timers,
                   rafPending, inFlight, offscreenCanvas, canvas, surface,
                   lastFrameTime, fps, last, stopsInARow,
                   imageData, inputTensor>>

\* The results session.run delivers in Spec: no output at all, one output
\* only, two empty buffers, and one detection whose box leaves the canvas.
TickResults ==
    { NoOutputs,
      << <<0, 0, 1, 1>> >>,
      << <<>>, <<>> >>,
      << <<0 - 5, 10, 400, 100>>, <<10>> >> }

runResolves == \E r \in TickResults : runResolved(r)

Next ==
    \/ modelLoaded
    \/ modelLoadFailed
    \/ startWebcam
    \/ getUserMediaResolved
    \/ getUserMediaRejected
    \/ playResolved
    \/ playRejected
    \/ stopWebcam
    \/ animationFrame
    \/ processFrame
    \/ runResolves
    \/ runRejected
    \/ advanceTime

Spec == Init /\ [][Next]_vars


\* ------------------------------------------------------------- postProcess
\* SpecPost applies postProcess to the results of one suspended tick, over a
\* wider range of output buffers than Spec delivers.
ScoreValues == {0 - 10, 0 - 9, 0, 9, 10}

RECURSIVE SeqsUpTo(_, _)
SeqsUpTo(S, n) ==
    IF n = 0 THEN {<<>>}
    ELSE LET shorter == SeqsUpTo(S, n - 1)
         IN  shorter \cup {Append(q, x) : q \in {t \in shorter : Len(t) = n - 1}, x \in S}

\* score buffers longer than the cap: every period-th score is 0, the others 10
LongScores(period) ==
    [k \in 1..(maxDetections + MaxExtra) |-> IF k % period = 0 THEN 0 ELSE 10]

ScoreBuffers ==
    SeqsUpTo(ScoreValues, MaxScores)
        \cup {LongScores(period) : period \in {2, 50, maxDetections + MaxExtra + 1}}

CoordValues == <<0 - 5, 10, 400, 200, 20, 30, 40, 50>>

\* a box buffer of n boxes, some of them leaving the canvas
BoxBuffer(n) == [k \in 1..(4 * n) |-> CoordValues[((k - 1) % Len(CoordValues)) + 1]]

PostResults ==
    {<<BoxBuffer(Len(scores)), scores>> : scores \in ScoreBuffers}
        \cup {NoOutputs, << <<0, 0, 1, 1>> >>, << <<1, 2>>, <<10>> >>}

CanvasSizes == {[width |-> 300, height |-> 150], [width |-> 640, height |-> 480]}

\* one tick suspended at session.run, the stream live, the render loop running
InitPost ==
    /\ session = "session"
    /\ modelLoad = "resolved"
    /\ stream = "live"
    /\ startButtonDisabled = FALSE
    /\ processingFrame = FALSE
    /\ getUserMedia = "none"
    /\ playPromise = "none"
    /\ timers = 1
    /\ rafPending = 1
    /\ inFlight = 1
    /\ offscreenCanvas = "drawn"
    /\ canvas \in CanvasSizes
    /\ surface = VideoSurface
    /\ lastFrameTime = 0
    /\ fps = [num |-> 0, den |-> 1]
    /\ now = 0
    /\ last = Event("processFrame")
    /\ stopsInARow = 0
    /\ imageData = Frame(2, 1, 0)
    /\ inputTensor = preprocess(Frame(2, 1, 0))

runResolvesPost == \E r \in PostResults : runResolved(r)

NextPost ==
    \/ runResolvesPost
    \/ advanceTime

SpecPost == InitPost /\ [][NextPost]_vars


\* -------------------------------------------------------------- preprocess
\* SpecPre runs ticks over pixel buffers of several sizes and contents.
PreFrames ==
    {Frame(w, h, seed) : w \in 1..MaxSide, h \in 1..MaxSide, seed \in 0..MaxSeed}

\* the model loaded, the stream live, the timer registered, no tick yet
InitPre ==
    /\ session = "session"
    /\ modelLoad = "resolved"
    /\ stream = "live"
    /\ startButtonDisabled = FALSE
    /\ processingFrame = FALSE
    /\ getUserMedia = "none"
    /\ playPromise = "none"
    /\ timers = 1
    /\ rafPending = 1
    /\ inFlight = 0
    /\ offscreenCanvas = "undefined"
    /\ canvas = [width |-> 300, height |-> 150]
    /\ surface = VideoSurface
    /\ lastFrameTime = 0
    /\ fps = [num |-> 0, den |-> 1]
    /\ now = 0
    /\ last = Event("playResolved")
    /\ stopsInARow = 0
    /\ imageData = NoImage
    /\ inputTensor = <<>>

processFramePre == \E frame \in PreFrames : processFrameOn(frame)

NextPre ==
    \/ processFramePre
    \/ runRejected
    \/ advanceTime

SpecPre == InitPre /\ [][NextPre]_vars

\* ------------------------------------------------------------------ claims
\* the step is the task `op` (advanceTime alone changes the clock)
Fired(op) == last'.op = op /\ now' = now

BothExist == session = "session" /\ stream = "live"

\* C1: a timer firing of processFrame with the session unset or the stream
\* null starts no inference call and leaves the off-screen buffer, the visible
\* surface, lastFrameTime and fps unchanged; with both present it draws to the
\* off-screen buffer and starts one inference call.
C1_TickEffect ==
    [][Fired("processFrame") =>
         IF BothExist
         THEN /\ offscreenCanvas' = "drawn"
              /\ inFlight' = inFlight + 1
         ELSE UNCHANGED <<inFlight, offscreenCanvas, surface, lastFrameTime, fps>>]_vars

C1_Witness ==
    /\ last.op = "processFrame"
    /\ session = "session"
    /\ stream = "null"
    /\ offscreenCanvas = "drawn"
    /\ inFlight = 0

\* C2: a timer firing starts a new inference call also while earlier calls are
\* still suspended at session.run, and processingFrame is never set to true.
C2_TicksOverlap ==
    /\ [](processingFrame = FALSE)
    /\ [][Fired("processFrame") /\ BothExist /\ inFlight >= 1
            => inFlight' = inFlight + 1]_vars

C2_Witness == inFlight >= 2 /\ last.op = "processFrame"

\* C3: stopWebcam cancels no inference call in flight, and a call that
\* resolves with both output buffers while the stream is null still clears
\* and redraws the visible surface and draws the FPS label.
C3_InFlightSurvivesStop ==
    [][/\ Fired("stopWebcam") => inFlight' = inFlight
       /\ Fired("runResolved") /\ Len(last'.results) >= 2 /\ stream = "null"
            => /\ surface'.painted
               /\ surface'.fpsLabel
               /\ lastFrameTime' = now]_vars

C3_Witness ==
    /\ last.op = "runResolved"
    /\ Len(last.results) >= 2
    /\ stream = "null"
    /\ surface.fpsLabel

\* C4: a renderVideoFrame iteration draws the video and schedules the next
\* iteration exactly when the stream is non-null as it runs; while the stream
\* stays stopped no render iteration is scheduled and the render loop draws
\* nothing (only a resuming inference call changes the surface).
C4_RenderLoop ==
    [][/\ Fired("renderVideoFrame") =>
            IF stream = "live"
            THEN surface' = VideoSurface /\ rafPending' = rafPending
            ELSE surface' = surface /\ rafPending' = rafPending - 1
       /\ Fired("playResolved") =>
            IF stream = "live"
            THEN surface' = VideoSurface /\ rafPending' = rafPending + 1
            ELSE surface' = surface /\ rafPending' = rafPending
       /\ stream # "live" /\ stream' # "live" =>
            /\ rafPending' <= rafPending
            /\ surface' # surface => Fired("runResolved")]_vars

C4_Witness ==
    /\ last.op = "renderVideoFrame"
    /\ stream = "null"
    /\ rafPending = 0
    /\ surface.painted

\* C5: after stopWebcam was called twice in succession, the second time with
\* no active stream, the second call changed no state, and as long as
\* startWebcam is not invoked every timer firing performs no inference call
\* and no drawing.
C5_StopIdempotent ==
    [][/\ Fired("stopWebcam") /\ stopsInARow >= 1 /\ stream # "live" =>
            UNCHANGED <<session, modelLoad, stream, startButtonDisabled,
                        processingFrame, getUserMedia, playPromise, timers,
                        rafPending, inFlight, offscreenCanvas, canvas, surface,
                        lastFrameTime, fps>>
       /\ Fired("processFrame") /\ stopsInARow = 2 =>
            UNCHANGED <<inFlight, offscreenCanvas, surface>>]_vars

\* C6: a failing session.run ends its tick only: postProcess is not called
\* (surface, lastFrameTime, fps unchanged), no call is started in its place,
\* nothing else of the state changes, and the next timer firing with session
\* and stream present runs the pipeline.
C6_RunFailureContained ==
    [][/\ Fired("runRejected") =>
            /\ inFlight' = inFlight - 1
            /\ UNCHANGED <<session, modelLoad, stream, startButtonDisabled,
                           processingFrame, getUserMedia, playPromise, timers,
                           rafPending, offscreenCanvas, canvas, surface,
                           lastFrameTime, fps>>
       /\ last.op = "runRejected" /\ Fired("processFrame") /\ BothExist =>
            /\ inFlight' = inFlight + 1
            /\ offscreenCanvas' = "drawn"]_vars

C6_Witness ==
    /\ last.op = "runRejected"
    /\ BothExist
    /\ timers > 0
    /\ inFlight = 0

\* a result lacks one of its two first output buffers, or one of them is empty
MissingOrEmpty(r) ==
    IF Len(r) < 2 THEN TRUE ELSE Len(r[1]) = 0 \/ Len(r[2]) = 0

\* C7: when the boxes or the scores buffer is missing or empty, postProcess
\* draws nothing: the visible surface is neither cleared nor redrawn and no
\* FPS label is drawn.
C7_InvalidResultDrawsNothing ==
    [][Fired("runResolved") /\ MissingOrEmpty(last'.results)
         => UNCHANGED <<surface, lastFrameTime, fps>>]_vars

\* C8: session is written only by the startup load, and once that load has
\* failed session stays unset: no tick calls session.run or postProcess.
C8_LoadFailureDisablesTicks ==
    /\ [](modelLoad = "rejected" =>
            /\ session = "undefined"
            /\ inFlight = 0
            /\ offscreenCanvas = "undefined"
            /\ ~surface.fpsLabel
            /\ last.op \notin {"runResolved", "runRejected"})
    /\ [][session' # session => Fired("modelLoaded") /\ modelLoad = "pending"]_vars

C8_Witness ==
    /\ modelLoad = "rejected"
    /\ stream = "live"
    /\ timers > 0
    /\ rafPending > 0
    /\ surface.painted
    /\ last.op = "processFrame"

\* C9: the start control is disabled while a start attempt is in progress, and
\* whenever it is disabled a step of the attempt is still pending, so that it
\* is enabled again once every pending step has settled.
C9_StartControl ==
    startButtonDisabled <=> (getUserMedia = "pending" \/ playPromise = "pending")

\* score / maxScore < 0.9, of the exact quotient
QuotientBelow(s, m) ==
    IF m > 0 THEN s * ThresholdDen < ThresholdNum * m
    ELSE IF m < 0 THEN s * ThresholdDen > ThresholdNum * m
    ELSE s < 0

\* score / maxScore >= 0.9, of the exact quotient (0 / 0 is no number)
QuotientAtLeast(s, m) ==
    IF m > 0 THEN s * ThresholdDen >= ThresholdNum * m
    ELSE IF m < 0 THEN s * ThresholdDen <= ThresholdNum * m
    ELSE FALSE

\* C10: in a postProcess invocation that passes validation, no detection whose
\* normalized score is below 0.9 is drawn, every detection whose normalized
\* score is at or above 0.9 is drawn unless 100 detections were drawn before
\* it, and the detections are drawn in score-buffer order.
C10_ThresholdExclusion ==
    last.op = "runResolved" /\ Len(last.results) >= 2 =>
        LET scores == last.results[2]
            top    == CHOOSE v \in {scores[k] : k \in 1..Len(scores)} :
                          \A k \in 1..Len(scores) : scores[k] <= v
            drawn  == surface.boxes
            before(i) == Cardinality({k \in 1..Len(drawn) : drawn[k].i < i})
        IN  /\ \A k \in 1..Len(drawn) : ~QuotientBelow(scores[drawn[k].i + 1], top)
            /\ \A i \in 0..(Len(scores) - 1) :
                   QuotientAtLeast(scores[i + 1], top) /\ before(i) < maxDetections
                       => \E k \in 1..Len(drawn) : drawn[k].i = i
            /\ \A k \in 1..(Len(drawn) - 1) : drawn[k].i < drawn[k + 1].i


\* the indices whose exact quotient score / maxScore is at or above 0.9
AtOrAbove(scores) ==
    LET top == CHOOSE v \in {scores[k] : k \in 1..Len(scores)} :
                   \A k \in 1..Len(scores) : scores[k] <= v
    IN  {i \in 0..(Len(scores) - 1) : QuotientAtLeast(scores[i + 1], top)}

\* C11: one postProcess invocation draws min(N, 100) detections, N being the
\* number of detections at or above the threshold, and the detections drawn
\* are the first 100 of those in score-buffer order.
C11_DetectionCap ==
    last.op = "runResolved" /\ Len(last.results) >= 2 =>
        LET candidates == AtOrAbove(last.results[2])
            drawn      == surface.boxes
        IN  /\ Len(drawn) = Min(Cardinality(candidates), maxDetections)
            /\ {drawn[k].i : k \in 1..Len(drawn)} =
                   {i \in candidates :
                        Cardinality({j \in candidates : j < i}) < maxDetections}


\* C12: for a score buffer that is non-empty and not all zero, whatever the
\* sign of its values, the greatest normalized score is 1.0: some normalized
\* score is 1.0 and every normalized score is a number at most 1.0.
C12_NormalizedMaximumIsOne ==
    last.op = "runResolved" /\ Len(last.results) >= 2 =>
        LET scores     == last.results[2]
            normalized == NormalizedScores(scores)
        IN  (\E k \in 1..Len(scores) : scores[k] # 0) =>
                /\ \E k \in 1..Len(scores) : StoredIsOne(normalized[k])
                /\ \A k \in 1..Len(scores) :
                       /\ normalized[k].kind = "number"
                       /\ ~StoredAboveOne(normalized[k])

\* C13: when the greatest raw score is 0, no normalized score is NaN or
\* infinite: every one is a defined number.
C13_ZeroMaximumIsDefined ==
    last.op = "runResolved" /\ Len(last.results) >= 2 =>
        LET scores     == last.results[2]
            normalized == NormalizedScores(scores)
        IN  (Len(scores) > 0 /\ MaxScore(scores).v = 0) =>
                \A k \in 1..Len(scores) : normalized[k].kind = "number"


\* C14: preprocess returns 3 * W * H elements in planar channel-first layout:
\* the element at index c * W * H + p is channel c (R = 0, G = 1, B = 2) of
\* pixel p divided by 255, and the alpha byte is dropped.
C14_PlanarLayout ==
    last.op = "processFrame" /\ imageData # NoImage =>
        LET plane == imageData.width * imageData.height
        IN  /\ Len(inputTensor) = 3 * plane
            /\ \A p \in 0..(plane - 1) : \A c \in 0..2 :
                   inputTensor[c * plane + p + 1] =
                       [num |-> imageData.data[4 * p + c + 1], den |-> ByteScale]


\* C15: a calculateFPS invocation that follows an earlier one (fps already
\* holds a quotient of 1000) computes a positive, finite FPS: the elapsed time
\* it divides by is above 0, also when the clock has not moved between the two.
C15_FpsPositiveFinite ==
    [][Fired("runResolved") /\ Len(last'.results) >= 2 /\ fps.num = MsPerSecond
         => /\ fps'.num = MsPerSecond
            /\ fps'.den > 0
            /\ lastFrameTime' = now]_vars


\* x clamped into [0, limit]
ClampedInto(limit, x, c) ==
    /\ ~c.nan
    /\ c.v >= 0 /\ c.v <= limit
    /\ (x >= 0 /\ x <= limit) => c.v = x
    /\ x < 0 => c.v = 0
    /\ x > limit => c.v = limit

\* C16: the coordinates of a drawn detection i are the box-buffer entries
\* 4i .. 4i+3, each clamped independently: x1 and x2 into [0, canvas.width],
\* y1 and y2 into [0, canvas.height], whatever their values and the canvas
\* size (for a box buffer that holds the four entries of the detection).
C16_Clamping ==
    last.op = "runResolved" /\ Len(last.results) >= 2 =>
        LET boxes == last.results[1]
            drawn == surface.boxes
        IN  \A k \in 1..Len(drawn) :
                LET i == drawn[k].i
                IN  4 * i + 4 <= Len(boxes) =>
                        /\ ClampedInto(canvas.width, boxes[4 * i + 1], drawn[k].x1)
                        /\ ClampedInto(canvas.height, boxes[4 * i + 2], drawn[k].y1)
                        /\ ClampedInto(canvas.width, boxes[4 * i + 3], drawn[k].x2)
                        /\ ClampedInto(canvas.height, boxes[4 * i + 4], drawn[k].y2)

C16_Witness ==
    /\ last.op = "runResolved"
    /\ Len(last.results) >= 2
    /\ \E k \in 1..Len(surface.boxes) :
           LET i == surface.boxes[k].i
               boxes == last.results[1]
           IN  /\ i >= 1
               /\ 4 * i + 4 <= Len(boxes)
               /\ boxes[4 * i + 1] < 0 /\ surface.boxes[k].x1.v = 0
               /\ boxes[4 * i + 3] > canvas.width
               /\ surface.boxes[k].x2.v = canvas.width
               /\ boxes[4 * i + 4] > canvas.height
               /\ surface.boxes[k].y2.v = canvas.height


\* C17: the detections a successful tick drew stay on the visible surface
\* through a tick that ends in MalformedResult (an output buffer missing) and
\* after it, until a postProcess that passes validation clears the surface:
\* neither the malformed tick nor the render loop nor a no-op tick removes them.
C17_StaleDetectionsPersist ==
    [][/\ Fired("runResolved") /\ Len(last'.results) < 2
            => surface' = surface
       /\ (/\ last.op = "runResolved" /\ Len(last.results) < 2
           /\ surface.boxes # <<>>
           /\ ~(Fired("runResolved") /\ Len(last'.results) >= 2))
            => surface'.boxes = surface.boxes]_vars


\* C18: at most one interval timer running processFrame is registered,
\* whatever the sequence of starts and stops.
C18_SingleTimer == timers <= 1

\* C19: at most one render-loop chain exists: never more than one pending
\* renderVideoFrame callback.
C19_SingleRenderChain == rafPending <= 1

\* C20: once stopWebcam has been invoked and startWebcam has not been invoked
\* since, also when a start attempt was pending at the stop, no stream is
\* active: the stream stays unset, no render-loop iteration draws or
\* reschedules and no timer firing starts an inference call.
C20_StopHaltsPendingStart ==
    [][stopsInARow' >= 1 =>
         /\ stream' # "live"
         /\ Fired("renderVideoFrame") => surface' = surface /\ rafPending' < rafPending
         /\ Fired("processFrame") => UNCHANGED <<inFlight, offscreenCanvas>>]_vars

====
